---------------------------- MODULE Spec2Model ----------------------------
(***************************************************************************)
(* A model of the ML services of medishift-scheduler:                      *)
(*   - SmartScheduleRecommender (recommendation_engine),                    *)
(*   - ScheduleAnomalyDetector  (anomaly_detector),                         *)
(*   - CallLoadPredictor        (prediction_model).                         *)
(* Each service has a specification of its own (SpecRec, SpecAnom,         *)
(* SpecPred); the variables of the other services stay idle in it.         *)
(*                                                                         *)
(* Numbers: anomaly scores are in hundredths, fairness indices in tenths.  *)
(* The workload imbalance (a quotient of a square root) is carried as the  *)
(* exact rational of its square.                                           *)
(***************************************************************************)
EXTENDS Integers, Sequences, FiniteSets, TLC

VARIABLES
    \* SmartScheduleRecommender: one call of a public method
    r_op,                   \* the method called
    r_pc,                   \* "call" (arguments bound) | "return" | "idle"
    current_schedule,       \* argument of generate_recommendations
    analysis,               \* bundle['analysis']
    recommendations,        \* the recommendation list (argument or bundle key)
    priority_actions,       \* result of prioritize_recommendations
    estimated_improvement,  \* result of estimate_improvement
    \* ScheduleAnomalyDetector: one call of a public method
    a_op,                   \* the method called
    a_pc,                   \* "call" | "return" | "raise" | "idle"
    anomaly_score,          \* argument of calculate_severity, in hundredths
    severity,               \* its result
    features,               \* argument of classify_anomaly
    anomaly_type,           \* its result
    schedule_data,          \* argument of detect_anomalies: the batch
    predictions,            \* IsolationForest.fit_predict: 1 normal, -1 anomaly
    anomaly_scores,         \* IsolationForest.score_samples, in hundredths
    report,                 \* result of detect_anomalies
    \* CallLoadPredictor: processes that share the file system
    files,                  \* path -> the artifact file at the path
    predictor,              \* process -> its CallLoadPredictor and its position
    train_count,            \* the fits done so far: names the fitted models
    persisted               \* history: the paths a complete artifact was written to

recVars == <<r_op, r_pc, current_schedule, analysis, recommendations,
             priority_actions, estimated_improvement>>

anomVars == <<a_op, a_pc, anomaly_score, severity, features, anomaly_type,
              schedule_data, predictions, anomaly_scores, report>>

predVars == <<files, predictor, train_count, persisted>>

vars == <<recVars, anomVars, predVars>>

\* What a service leaves alone: the variables of the other services.
notRec == <<anomVars, predVars>>
notAnom == <<recVars, predVars>>
notPred == <<recVars, anomVars>>

Min(a, b) == IF a < b THEN a ELSE b

RECURSIVE SumSeq(_)
SumSeq(s) == IF s = <<>> THEN 0 ELSE Head(s) + SumSeq(Tail(s))

(***************************************************************************)
(* Bounds of the model.                                                    *)
(***************************************************************************)
MaxRecs == 5
MaxResidents == 4
MaxCalls == 4
MaxGaps == 1
MaxScoreMagnitude == 60
MaxConsecutive == 3
MaxCoverageGaps == 2
MaxConflicts == 1
MaxBatch == 3
NumProcs == 2
ArtifactChunks == 2
MaxTrainings == 2
MaxDays == 1
MaxActive == 2

(***************************************************************************)
(* SmartScheduleRecommender                                                *)
(***************************************************************************)

\* A recommendation dict: its type, its priority, the payload sizes the
\* descriptions report, and id, the identity of the dict object.
Rec(t, p, payload) == [id |-> 0, type |-> t, priority |-> p, payload |-> payload]

\* priority_map.get(x['priority'], 4)
priority_map(p) ==
    CASE p = "critical" -> 0
      [] p = "high" -> 1
      [] p = "medium" -> 2
      [] p = "low" -> 3
      [] OTHER -> 4

\* One step of the stable sort: x, which followed every element of s in the
\* input, goes behind the elements whose key is not greater.
RECURSIVE InsertByKey(_, _)
InsertByKey(x, s) ==
    IF s = <<>> THEN <<x>>
    ELSE IF priority_map(x.priority) < priority_map(Head(s).priority)
         THEN <<x>> \o s
         ELSE <<Head(s)>> \o InsertByKey(x, Tail(s))

\* sorted(recommendations, key=...): Python's sort is stable.
RECURSIVE sorted(_)
sorted(recs) ==
    IF recs = <<>> THEN <<>>
    ELSE InsertByKey(recs[Len(recs)], sorted(SubSeq(recs, 1, Len(recs) - 1)))

\* sorted_recs[:3]
TopActions == 3

\* A bug: the list is cut to three before it is sorted.
Mut_prioritize_recommendations(recs) ==
    sorted(SubSeq(recs, 1, Min(TopActions, Len(recs))))

prioritize_recommendations(recs) ==
    SubSeq(sorted(recs), 1, Min(TopActions, Len(recs)))

ImprovementCap == 100

NoImprovement == [coverage |-> 0, fairness |-> 0, efficiency |-> 0, satisfaction |-> 0]

\* The body of the loop of estimate_improvement.
Accumulate(imp, rec) ==
    IF rec.type = "coverage_gaps"
    THEN [imp EXCEPT !.coverage = @ + 30]
    ELSE IF rec.type = "workload_balance"
    THEN [imp EXCEPT !.fairness = @ + 25, !.satisfaction = @ + 20]
    ELSE IF rec.type = "vacation_conflicts"
    THEN [imp EXCEPT !.satisfaction = @ + 15]
    ELSE IF rec.type = "fairness"
    THEN [imp EXCEPT !.fairness = @ + 20, !.satisfaction = @ + 25]
    ELSE imp

RECURSIVE Improvements(_)
Improvements(recs) ==
    IF recs = <<>> THEN NoImprovement
    ELSE Accumulate(Improvements(SubSeq(recs, 1, Len(recs) - 1)), recs[Len(recs)])

\* A bug: the sums are returned uncapped.
Mut_estimate_improvement(recs) == Improvements(recs)

estimate_improvement(recs) ==
    [metric \in DOMAIN NoImprovement |->
        Min(ImprovementCap, Improvements(recs)[metric])]


\* A rational number num/den, den > 0.
Rat(n, d) == [num |-> n, den |-> d]

\* A bug: the sum of the absolute deviations where the code squares them.
Mut_calculate_workload_imbalance(schedule) ==
    LET calls == schedule.residents
        n == Len(calls)
        S == SumSeq(calls)
        Abs(x) == IF x < 0 THEN -x ELSE x
    IN IF n = 0 \/ S = 0 THEN Rat(0, 1)
       ELSE Rat(SumSeq([i \in 1..n |-> Abs(n * calls[i] - S)]), n * S * S)

\* calculate_workload_imbalance: np.std(calls) / np.mean(calls), here squared:
\* with n values of sum S, std^2 = Sum (n*x - S)^2 / n^3 and mean^2 = S^2 / n^2.
calculate_workload_imbalance(schedule) ==
    LET calls == schedule.residents
        n == Len(calls)
        S == SumSeq(calls)
    IN IF n = 0 THEN Rat(0, 1)
       ELSE IF S > 0
            THEN Rat(SumSeq([i \in 1..n |-> (n * calls[i] - S) * (n * calls[i] - S)]),
                     n * S * S)
            ELSE Rat(0, 1)

\* find_coverage_gaps: "Simplified - would check actual schedule data".
find_coverage_gaps(schedule) == <<>>

\* find_vacation_conflicts: "Simplified - would check actual conflicts".
find_vacation_conflicts(schedule) == <<>>

\* calculate_fairness_score: the placeholder 0.75, in hundredths.
calculate_fairness_score(schedule) == 75

\* calculate_efficiency_score: the placeholder 0.80, in hundredths.
calculate_efficiency_score(schedule) == 80

check_compliance(schedule) == <<>>

analyze_schedule(schedule) ==
    [workload_imbalance |-> calculate_workload_imbalance(schedule),
     coverage_gaps      |-> find_coverage_gaps(schedule),
     vacation_conflicts |-> find_vacation_conflicts(schedule),
     fairness_score     |-> calculate_fairness_score(schedule),
     efficiency_score   |-> calculate_efficiency_score(schedule),
     compliance_issues  |-> check_compliance(schedule)]

\* The residents with call_count > average_calls * 1.2, by position;
\* average_calls is a rational.
Overloaded(schedule) ==
    {i \in 1..Len(schedule.residents) :
        10 * schedule.residents[i] * schedule.average_calls.den
            > 12 * schedule.average_calls.num}

\* The residents with call_count < average_calls * 0.8, by position.
Underloaded(schedule) ==
    {i \in 1..Len(schedule.residents) :
        /\ ~(10 * schedule.residents[i] * schedule.average_calls.den
                > 12 * schedule.average_calls.num)
        /\ 10 * schedule.residents[i] * schedule.average_calls.den
              < 8 * schedule.average_calls.num}

\* can_swap is called by recommend_workload_balance and defined nowhere in the
\* class: a capability of the surrounding system, which answers per pair.
can_swap(over, under, swappable) == <<over, under>> \in swappable

\* The answers of can_swap the model draws from: for each number of pairs of
\* an overloaded and an underloaded resident, the first so many pairs in the
\* order of the two loops.
SwapAnswers(schedule) ==
    LET n == Len(schedule.residents)
        pairs == Overloaded(schedule) \X Underloaded(schedule)
    IN {{pr \in pairs : (pr[1] - 1) * n + pr[2] <= k} : k \in 0..(n * n)}

\* swaps[:5]
TopSwaps == 5

recommend_workload_balance(schedule, swappable) ==
    LET swaps == {pr \in Overloaded(schedule) \X Underloaded(schedule) :
                     can_swap(pr[1], pr[2], swappable)}
    IN Rec("workload_balance", "high",
           <<Cardinality(Overloaded(schedule)), Cardinality(Underloaded(schedule)),
             Min(TopSwaps, Cardinality(swaps))>>)

recommend_coverage_fixes(gaps) ==
    Rec("coverage_gaps", "critical", <<Len(gaps)>>)

recommend_vacation_solutions(conflicts) ==
    Rec("vacation_conflicts", "medium", <<Len(conflicts)>>)

\* The four static suggestions.
recommend_fairness_improvements(schedule) ==
    Rec("fairness", "medium", <<4>>)

\* predict_high_demand_periods and predict_future_conflicts are called and
\* defined nowhere in the class: capabilities, whose answers (the number of
\* periods, of conflicts) are the parameters here.
generate_predictive_recommendations(high_demand, future_conflicts) ==
    (IF high_demand > 0 THEN <<Rec("predictive", "low", <<high_demand>>)>> ELSE <<>>)
    \o (IF future_conflicts > 0
        THEN <<Rec("predictive", "medium", <<future_conflicts>>)>> ELSE <<>>)

\* analysis['workload_imbalance'] > 0.2, on the square: q > 1/25.
ExceedsImbalanceThreshold(q) == 25 * q.num > q.den

\* Each dict of the list is an object of its own.
WithIds(recs) == [i \in 1..Len(recs) |-> [recs[i] EXCEPT !.id = i]]

\* The list generate_recommendations builds, lines 18-38.
BuildRecommendations(schedule, a, swappable, high_demand, future_conflicts) ==
    WithIds(
        (IF ExceedsImbalanceThreshold(a.workload_imbalance)
         THEN <<recommend_workload_balance(schedule, swappable)>> ELSE <<>>)
     \o (IF a.coverage_gaps # <<>>
         THEN <<recommend_coverage_fixes(a.coverage_gaps)>> ELSE <<>>)
     \o (IF a.vacation_conflicts # <<>>
         THEN <<recommend_vacation_solutions(a.vacation_conflicts)>> ELSE <<>>)
     \o (IF a.fairness_score < 70
         THEN <<recommend_fairness_improvements(schedule)>> ELSE <<>>)
     \o generate_predictive_recommendations(high_demand, future_conflicts))

NoSchedule == [residents |-> <<>>, average_calls |-> Rat(0, 1), coverage_gaps |-> <<>>]
NoAnalysis == analyze_schedule(NoSchedule)

\* The schedule snapshots passed in: the residents' call counts, their
\* average, and the coverage gaps the snapshot holds.
CallCounts == UNION {[1..n -> 0..MaxCalls] : n \in 0..MaxResidents}
Average(calls) == IF calls = <<>> THEN Rat(0, 1) ELSE Rat(SumSeq(calls), Len(calls))
Gap(d) == [date |-> d, type |-> "uncovered"]
Schedules ==
    {[residents |-> calls, average_calls |-> Average(calls), coverage_gaps |-> gaps] :
        calls \in CallCounts, gaps \in {[d \in 1..k |-> Gap(d)] : k \in 0..MaxGaps}}

\* The kinds of recommendation the class builds, and one it does not.
RecKinds ==
    {Rec("coverage_gaps", "critical", <<>>), Rec("workload_balance", "high", <<>>),
     Rec("vacation_conflicts", "medium", <<>>), Rec("fairness", "medium", <<>>),
     Rec("predictive", "low", <<>>), Rec("custom", "urgent", <<>>)}
RecLists == {WithIds(l) : l \in UNION {[1..n -> RecKinds] : n \in 0..MaxRecs}}

RecIdle ==
    /\ r_op = "none"
    /\ r_pc = "idle"
    /\ current_schedule = NoSchedule
    /\ analysis = NoAnalysis
    /\ recommendations = <<>>
    /\ priority_actions = <<>>
    /\ estimated_improvement = NoImprovement

RecStart ==
    /\ r_op \in {"prioritize_recommendations", "estimate_improvement",
                 "generate_recommendations"}
    /\ r_pc = "call"
    /\ IF r_op = "generate_recommendations"
       THEN current_schedule \in Schedules /\ recommendations = <<>>
       ELSE current_schedule = NoSchedule /\ recommendations \in RecLists
    /\ analysis = NoAnalysis
    /\ priority_actions = <<>>
    /\ estimated_improvement = NoImprovement

PrioritizeRecommendations ==
    /\ r_op = "prioritize_recommendations"
    /\ r_pc = "call"
    /\ priority_actions' = prioritize_recommendations(recommendations)
    /\ r_pc' = "return"
    /\ UNCHANGED <<r_op, current_schedule, analysis, recommendations,
                   estimated_improvement, notRec>>

EstimateImprovement ==
    /\ r_op = "estimate_improvement"
    /\ r_pc = "call"
    /\ estimated_improvement' = estimate_improvement(recommendations)
    /\ r_pc' = "return"
    /\ UNCHANGED <<r_op, current_schedule, analysis, recommendations,
                   priority_actions, notRec>>

GenerateRecommendations ==
    /\ r_op = "generate_recommendations"
    /\ r_pc = "call"
    /\ \E swappable \in SwapAnswers(current_schedule),
          high_demand \in 0..1, future_conflicts \in 0..1 :
          LET a == analyze_schedule(current_schedule)
              recs == BuildRecommendations(current_schedule, a, swappable,
                                           high_demand, future_conflicts)
          IN /\ analysis' = a
             /\ recommendations' = recs
             /\ priority_actions' = prioritize_recommendations(recs)
             /\ estimated_improvement' = estimate_improvement(recs)
    /\ r_pc' = "return"
    /\ UNCHANGED <<r_op, current_schedule, notRec>>

(***************************************************************************)
(* ScheduleAnomalyDetector                                                 *)
(***************************************************************************)

\* entry.get(key, default): an entry is a dict that may lack the key.
Get(entry, key, default) == IF key \in DOMAIN entry THEN entry[key] ELSE default

\* fairness_index 1, the default, in tenths.
FairnessOne == 10

\* One row of extract_schedule_features.
FeatureRow(entry) ==
    [calls_per_resident    |-> Get(entry, "calls_count", 0),
     consecutive_calls     |-> Get(entry, "consecutive_calls", 0),
     weekend_concentration |-> Get(entry, "weekend_ratio", 0),
     coverage_gaps         |-> Get(entry, "coverage_gaps", 0),
     fairness_index        |-> Get(entry, "fairness_index", FairnessOne),
     pgy_distribution      |-> Get(entry, "pgy_variance", 0),
     vacation_conflicts    |-> Get(entry, "vacation_conflicts", 0),
     workload_variance     |-> Get(entry, "workload_variance", 0)]

\* extract_schedule_features: the DataFrame, one row per entry.
extract_schedule_features(data) == [i \in 1..Len(data) |-> FeatureRow(data[i])]

\* A bug: the coverage-gap rule is tried before the consecutive-calls rule.
Mut_classify_anomaly(f) ==
    IF f.coverage_gaps > 0 THEN "Coverage Gap Detected"
    ELSE IF f.consecutive_calls > 2 THEN "Excessive Consecutive Calls"
    ELSE IF f.fairness_index < 5 THEN "Unfair Distribution"
    ELSE IF f.vacation_conflicts > 0 THEN "Vacation Conflict"
    ELSE "General Anomaly"

\* classify_anomaly; fairness_index < 0.5 is < 5 tenths.
classify_anomaly(f) ==
    IF f.consecutive_calls > 2 THEN "Excessive Consecutive Calls"
    ELSE IF f.coverage_gaps > 0 THEN "Coverage Gap Detected"
    ELSE IF f.fairness_index < 5 THEN "Unfair Distribution"
    ELSE IF f.vacation_conflicts > 0 THEN "Vacation Conflict"
    ELSE "General Anomaly"

\* A bug: the thresholds taken as closed (<=).
Mut_calculate_severity(score) ==
    IF score <= -50 THEN "Critical"
    ELSE IF score <= -30 THEN "High"
    ELSE IF score <= -10 THEN "Medium"
    ELSE "Low"

\* calculate_severity; the thresholds -0.5, -0.3, -0.1 in hundredths.
calculate_severity(score) ==
    IF score < -50 THEN "Critical"
    ELSE IF score < -30 THEN "High"
    ELSE IF score < -10 THEN "Medium"
    ELSE "Low"

get_anomaly_details(f, original_data) ==
    [affected_residents |-> Get(original_data, "residents", <<>>),
     date_range         |-> Get(original_data, "date_range", ""),
     metrics            |-> f]

get_recommendation(f) ==
    IF f.consecutive_calls > 2
    THEN "Redistribute calls to prevent burnout. Consider adding post-call days."
    ELSE IF f.coverage_gaps > 0
    THEN "Fill coverage gaps by adjusting vacation approvals or adding backup residents."
    ELSE IF f.fairness_index < 5
    THEN "Rebalance call distribution to ensure fairness across all residents."
    ELSE IF f.vacation_conflicts > 0
    THEN "Review and adjust vacation schedules to avoid conflicts."
    ELSE "Review schedule manually for optimization opportunities."

\* np.sum(predictions == label)
RECURSIVE CountLabel(_, _)
CountLabel(preds, label) ==
    IF preds = <<>> THEN 0
    ELSE (IF Head(preds) = label THEN 1 ELSE 0) + CountLabel(Tail(preds), label)

\* A bug: the anomalous entries are counted where the normal ones should be.
Mut_calculate_health_score(preds) ==
    IF Len(preds) > 0 THEN Rat(CountLabel(preds, -1) * 100, Len(preds)) ELSE Rat(0, 1)

\* calculate_health_score: (normal_count / total_count) * 100, as a rational.
calculate_health_score(preds) ==
    IF Len(preds) > 0 THEN Rat(CountLabel(preds, 1) * 100, Len(preds)) ELSE Rat(0, 1)

\* The loop of detect_anomalies over enumerate(zip(predictions, scores)), up
\* to entry n; index is the 0-based place of the entry in the batch.
RECURSIVE CollectAnomalies(_, _, _, _, _)
CollectAnomalies(data, feats, preds, scores, n) ==
    IF n = 0 THEN <<>>
    ELSE CollectAnomalies(data, feats, preds, scores, n - 1)
         \o (IF preds[n] = -1
             THEN <<[index          |-> n - 1,
                     type           |-> classify_anomaly(feats[n]),
                     severity       |-> calculate_severity(scores[n]),
                     details        |-> get_anomaly_details(feats[n], data[n]),
                     recommendation |-> get_recommendation(feats[n])]>>
             ELSE <<>>)

\* StandardScaler.fit_transform(features): the frame of an empty batch has no
\* row (and no column), which scikit-learn's input validation refuses with a
\* ValueError; any other frame is scaled.
fit_transform_raises(feats) == Len(feats) = 0

NoReport == [total_anomalies |-> 0, anomalies |-> <<>>, health_score |-> Rat(0, 1)]
NoFeatures == FeatureRow([calls_count |-> 0])

\* The feature vectors classify_anomaly is called with.
FeatureVectors ==
    {[NoFeatures EXCEPT !.consecutive_calls = c, !.coverage_gaps = g,
                        !.fairness_index = f, !.vacation_conflicts = v] :
        c \in 0..MaxConsecutive, g \in 0..MaxCoverageGaps,
        f \in 0..FairnessOne, v \in 0..MaxConflicts}

\* The schedule entries of the batches: dicts that hold some of the keys.
Entries ==
    {[consecutive_calls |-> MaxConsecutive, coverage_gaps |-> MaxCoverageGaps],
     [fairness_index |-> 4, vacation_conflicts |-> MaxConflicts],
     [calls_count |-> 5, residents |-> <<"r1">>]}
Batches == UNION {[1..n -> Entries] : n \in 0..MaxBatch}

\* The scores the outlier model gives the entries of a batch.
BatchScores == {-MaxScoreMagnitude, -50, -30, 0}

AnomIdle ==
    /\ a_op = "none"
    /\ a_pc = "idle"
    /\ anomaly_score = 0
    /\ severity = "none"
    /\ features = NoFeatures
    /\ anomaly_type = "none"
    /\ schedule_data = <<>>
    /\ predictions = <<>>
    /\ anomaly_scores = <<>>
    /\ report = NoReport

AnomStart ==
    /\ a_op \in {"calculate_severity", "classify_anomaly", "detect_anomalies"}
    /\ a_pc = "call"
    /\ IF a_op = "calculate_severity"
       THEN anomaly_score \in (-MaxScoreMagnitude)..0 ELSE anomaly_score = 0
    /\ IF a_op = "classify_anomaly"
       THEN features \in FeatureVectors ELSE features = NoFeatures
    /\ IF a_op = "detect_anomalies"
       THEN schedule_data \in Batches ELSE schedule_data = <<>>
    /\ severity = "none"
    /\ anomaly_type = "none"
    /\ predictions = <<>>
    /\ anomaly_scores = <<>>
    /\ report = NoReport

CalculateSeverity ==
    /\ a_op = "calculate_severity"
    /\ a_pc = "call"
    /\ severity' = calculate_severity(anomaly_score)
    /\ a_pc' = "return"
    /\ UNCHANGED <<a_op, anomaly_score, features, anomaly_type, schedule_data,
                   predictions, anomaly_scores, report, notAnom>>

ClassifyAnomaly ==
    /\ a_op = "classify_anomaly"
    /\ a_pc = "call"
    /\ anomaly_type' = classify_anomaly(features)
    /\ a_pc' = "return"
    /\ UNCHANGED <<a_op, anomaly_score, severity, features, schedule_data,
                   predictions, anomaly_scores, report, notAnom>>

\* detect_anomalies on a batch the scaler accepts: the outlier model labels and
\* scores each entry, and the report is built from its answers.
DetectAnomalies ==
    /\ a_op = "detect_anomalies"
    /\ a_pc = "call"
    /\ LET feats == extract_schedule_features(schedule_data)
           n == Len(schedule_data)
       IN /\ ~fit_transform_raises(feats)
          /\ \E preds \in [1..n -> {1, -1}], scores \in [1..n -> BatchScores] :
                /\ predictions' = preds
                /\ anomaly_scores' = scores
                /\ report' =
                      LET anomalies == CollectAnomalies(schedule_data, feats,
                                                        preds, scores, n)
                      IN [total_anomalies |-> Len(anomalies),
                          anomalies       |-> anomalies,
                          health_score    |-> calculate_health_score(preds)]
    /\ a_pc' = "return"
    /\ UNCHANGED <<a_op, anomaly_score, severity, features, anomaly_type,
                   schedule_data, notAnom>>

\* detect_anomalies on a batch the scaler refuses: the ValueError of line 22
\* leaves the method, and no report is returned.
DetectAnomaliesRaises ==
    /\ a_op = "detect_anomalies"
    /\ a_pc = "call"
    /\ fit_transform_raises(extract_schedule_features(schedule_data))
    /\ a_pc' = "raise"
    /\ UNCHANGED <<a_op, anomaly_score, severity, features, anomaly_type,
                   schedule_data, predictions, anomaly_scores, report, notAnom>>

(***************************************************************************)
(* CallLoadPredictor                                                       *)
(***************************************************************************)

\* The default of model_path, and the path train_model writes to.
DefaultPath == "models/schedule_predictor.pkl"
Paths == {DefaultPath, "models/custom_predictor.pkl"}
Procs == 1..NumProcs

\* RandomForestRegressor(n_estimators=100, max_depth=10, random_state=42),
\* not fitted. A fitted model is named by the fit that made it.
FreshModel == [estimator |-> "RandomForestRegressor", fitted |-> FALSE, version |-> 0]
FittedModel(v) == [estimator |-> "RandomForestRegressor", fitted |-> TRUE, version |-> v]

\* pickle.load returns the object the artifact holds, whatever its class: an
\* artifact may hold a fitted classifier, which has predict_proba.
ClassifierModel(v) == [estimator |-> "RandomForestClassifier", fitted |-> TRUE, version |-> v]

\* self.model.fit: the same estimator, fitted anew.
fit(model, v) == [model EXCEPT !.fitted = TRUE, !.version = v]

\* A file: whether it exists, and its bytes as chunks, each the chunk of that
\* place of the pickle of a model (Hole: a place no writer has filled).
AbsentFile == [exists |-> FALSE, chunks |-> <<>>]
Hole == [estimator |-> "none", fitted |-> FALSE, version |-> -1]
PickleOf(model) == [exists |-> TRUE, chunks |-> [k \in 1..ArtifactChunks |-> model]]

\* The file holds the whole pickle of one model.
IsCompletePickle(file) ==
    /\ file.exists
    /\ Len(file.chunks) = ArtifactChunks
    /\ file.chunks[1] # Hole
    /\ \A k \in 1..ArtifactChunks : file.chunks[k] = file.chunks[1]

\* What open(path, 'rb') and pickle.load meet: no file (FileNotFoundError), no
\* byte (EOFError), a pickle cut short or mixed (UnpicklingError), a pickle.
Observed(file) ==
    IF ~file.exists THEN "absent"
    ELSE IF file.chunks = <<>> THEN "empty"
    ELSE IF IsCompletePickle(file) THEN "complete"
    ELSE "partial"

\* load_model: the unpickled model, or on any exception a fresh one.
load_model(file) ==
    IF Observed(file) = "complete" THEN file.chunks[1] ELSE FreshModel

\* open(path, 'wb'): the file is created or cut to no byte.
OpenForWrite(file) == [exists |-> TRUE, chunks |-> <<>>]

\* A write of chunk k of the pickle of model v at the writer's own offset:
\* places no writer reached are holes.
WriteChunk(file, k, v) ==
    [file EXCEPT !.chunks =
        [j \in 1..(IF Len(file.chunks) > k THEN Len(file.chunks) ELSE k) |->
            IF j = k THEN v
            ELSE IF j <= Len(file.chunks) THEN file.chunks[j] ELSE Hole]]

\* RandomForestRegressor has no predict_proba.
has_predict_proba(model) == model.estimator # "RandomForestRegressor"

\* A call probability is carried in hundred-thousandths: 0.7 is 70000 and
\* 0.70001 is 70001.
Threshold == 70000

\* The values predict_proba(...)[0][1] takes here: 0, and the threshold with
\* its two neighbours.
Probabilities == {0, Threshold - 1, Threshold, Threshold + 1}

\* The answers of the model for the active residents of a day: one
\* probability per resident.
predict_proba(active) == [1..active -> Probabilities]

\* A bug: the threshold itself counts as recommended.
Mut_recommended(probability) == probability >= Threshold

\* Line 77: 'recommended': probability > 0.7.
recommended(probability) == probability > Threshold

\* Lines 61-78: one dict per active resident, in the order of the store.
daily_predictions(active, proba) ==
    [i \in 1..active |->
        [resident_id |-> i, call_probability |-> proba[i],
         recommended |-> recommended(proba[i])]]

\* Line 82: sum(1 for p in daily_predictions if p['recommended']).
total_coverage_needed(predictions_of_day) ==
    Cardinality({i \in 1..Len(predictions_of_day) : predictions_of_day[i].recommended})

\* Line 83: sorted(..., key=call_probability, reverse=True), which is stable:
\* equal probabilities keep the order of the store.
SortedByProbability(predictions_of_day) ==
    LET n == Len(predictions_of_day)
        Before(i, j) ==
            \/ predictions_of_day[i].call_probability > predictions_of_day[j].call_probability
            \/ /\ predictions_of_day[i].call_probability = predictions_of_day[j].call_probability
               /\ i < j
        Place(i) == 1 + Cardinality({j \in 1..n : Before(j, i)})
    IN [k \in 1..n |-> predictions_of_day[CHOOSE i \in 1..n : Place(i) = k]]

\* Lines 80-84: the DailyForecast of a day with the answers proba of the model
\* for its active residents.
DailyForecast(active, proba) ==
    LET predictions_of_day == daily_predictions(active, proba)
    IN [total_coverage_needed |-> total_coverage_needed(predictions_of_day),
        assignments |-> SortedByProbability(predictions_of_day)]

NoPredictor ==
    [pc |-> "new", model_path |-> DefaultPath, model |-> FreshModel,
     load_saw |-> "none", had_artifact |-> FALSE, pos |-> 0, period_days |-> 0,
     prev_op |-> "none", last_op |-> "none", raised |-> "none", forecast |-> <<>>]

PredIdle ==
    /\ files = [path \in Paths |-> AbsentFile]
    /\ predictor = [p \in Procs |-> NoPredictor]
    /\ train_count = 1
    /\ persisted = {}

\* At each path there is no artifact, or the one an earlier train_model wrote.
PredStart ==
    /\ files \in [Paths -> {AbsentFile, PickleOf(FittedModel(1))}]
    /\ predictor = [p \in Procs |-> NoPredictor]
    /\ train_count = 1
    /\ persisted = {path \in Paths : files[path].exists}

\* The same, and the artifact may be one that holds a fitted classifier.
SerialStart ==
    /\ files \in [Paths -> {AbsentFile, PickleOf(FittedModel(1)), PickleOf(ClassifierModel(1))}]
    /\ predictor = [p \in Procs |-> NoPredictor]
    /\ train_count = 1
    /\ persisted = {path \in Paths : files[path].exists}

\* The op that ends now, after the one before it.
Ended(pr, op, raised) ==
    [pr EXCEPT !.pc = "ready", !.prev_op = pr.last_op, !.last_op = op,
               !.raised = raised]

\* CallLoadPredictor(model_path): __init__ loads the model.
Construct(p, path) ==
    /\ predictor[p].pc = "new"
    /\ predictor' = [predictor EXCEPT ![p] =
          [@ EXCEPT !.pc = "ready", !.model_path = path,
                    !.model = load_model(files[path]),
                    !.load_saw = Observed(files[path]),
                    !.had_artifact = path \in persisted]]
    /\ UNCHANGED <<files, train_count, persisted, notPred>>

\* train_model on a well-formed dataset, lines 162-166: the model is fitted.
TrainFit(p) ==
    /\ predictor[p].pc = "ready"
    /\ train_count <= MaxTrainings
    /\ train_count' = train_count + 1
    /\ predictor' = [predictor EXCEPT ![p] =
          [@ EXCEPT !.pc = "fitted", !.model = fit(@, train_count + 1)]]
    /\ UNCHANGED <<files, persisted, notPred>>

\* Line 169: open('models/schedule_predictor.pkl', 'wb').
TrainOpen(p) ==
    /\ predictor[p].pc = "fitted"
    /\ files' = [files EXCEPT ![DefaultPath] = OpenForWrite(@)]
    /\ predictor' = [predictor EXCEPT ![p] = [@ EXCEPT !.pc = "writing", !.pos = 0]]
    /\ UNCHANGED <<train_count, persisted, notPred>>

\* Line 170: pickle.dump writes the next chunk of the pickle.
TrainWrite(p) ==
    /\ predictor[p].pc = "writing"
    /\ predictor[p].pos < ArtifactChunks
    /\ files' = [files EXCEPT ![DefaultPath] =
          WriteChunk(@, predictor[p].pos + 1, predictor[p].model)]
    /\ predictor' = [predictor EXCEPT ![p] = [@ EXCEPT !.pos = @ + 1]]
    /\ persisted' = IF IsCompletePickle(files'[DefaultPath])
                    THEN persisted \cup {DefaultPath} ELSE persisted
    /\ UNCHANGED <<train_count, notPred>>

\* Lines 170-176: the file is closed and train_model returns.
TrainReturn(p) ==
    /\ predictor[p].pc = "writing"
    /\ predictor[p].pos = ArtifactChunks
    /\ predictor' = [predictor EXCEPT ![p] = Ended(@, "train_model", "none")]
    /\ UNCHANGED <<files, train_count, persisted, notPred>>

\* predict_call_load(date, period_days), lines 53-54: predictions = [].
PredictBegin(p, period_days) ==
    /\ predictor[p].pc = "ready"
    /\ predictor' = [predictor EXCEPT ![p] =
          [@ EXCEPT !.pc = "predicting", !.period_days = period_days,
                    !.forecast = <<>>]]
    /\ UNCHANGED <<files, train_count, persisted, notPred>>

\* Lines 56-86, one day of the loop, the store returning active residents: on
\* a model without predict_proba the first resident raises (line 70); else the
\* DailyForecast of the day is appended.
PredictDay(p, active) ==
    /\ predictor[p].pc = "predicting"
    /\ Len(predictor[p].forecast) < predictor[p].period_days
    /\ IF active >= 1 /\ ~has_predict_proba(predictor[p].model)
       THEN predictor' = [predictor EXCEPT ![p] =
               [Ended(@, "predict_call_load", "AttributeError") EXCEPT !.forecast = <<>>]]
       ELSE \E proba \in predict_proba(active) :
               predictor' = [predictor EXCEPT ![p] =
                   [@ EXCEPT !.forecast = Append(@, DailyForecast(active, proba))]]
    /\ UNCHANGED <<files, train_count, persisted, notPred>>

\* Lines 88-93: after the last day predict_call_load returns the window.
PredictReturn(p) ==
    /\ predictor[p].pc = "predicting"
    /\ Len(predictor[p].forecast) = predictor[p].period_days
    /\ predictor' = [predictor EXCEPT ![p] = Ended(@, "predict_call_load", "none")]
    /\ UNCHANGED <<files, train_count, persisted, notPred>>

(***************************************************************************)
(* Properties of SmartScheduleRecommender, under SpecRec.                  *)
(***************************************************************************)

RecReturned(ops) == r_pc = "return" /\ r_op \in ops

\* The rank of a priority, as the claim C1 states it.
C1_Rank(p) ==
    IF p = "critical" THEN 0 ELSE IF p = "high" THEN 1
    ELSE IF p = "medium" THEN 2 ELSE IF p = "low" THEN 3 ELSE 4

\* The place of a recommendation in the list passed in.
C1_Pos(r) == CHOOSE i \in 1..Len(recommendations) : recommendations[i] = r

\* a comes before b in the stable order by rank.
C1_Before(a, b) ==
    \/ C1_Rank(a.priority) < C1_Rank(b.priority)
    \/ C1_Rank(a.priority) = C1_Rank(b.priority) /\ C1_Pos(a) < C1_Pos(b)

\* C1: prioritize_recommendations returns the first min(3, length) elements of
\* the list stable-sorted by rank critical < high < medium < low < other: at
\* most 3 elements, each one of the list and none twice, in rank order, equal
\* ranks in their order of the list, and every element left out comes after
\* every element returned (no smaller rank; at equal rank, later in the list).
C1_PriorityActionsAreSortedPrefix ==
    RecReturned({"prioritize_recommendations", "generate_recommendations"}) =>
        LET given == {recommendations[i] : i \in 1..Len(recommendations)}
            taken == {priority_actions[k] : k \in 1..Len(priority_actions)}
        IN /\ Len(priority_actions) = Min(3, Len(recommendations))
           /\ taken \subseteq given
           /\ \A j, k \in 1..Len(priority_actions) :
                 j < k => C1_Before(priority_actions[j], priority_actions[k])
           /\ \A r \in given \ taken : \A t \in taken :
                 /\ ~(C1_Rank(r.priority) < C1_Rank(t.priority))
                 /\ C1_Before(t, r)

\* A list of five whose first action comes from behind the third place, and
\* which leaves out an element of the rank of one it returns.
C1_Witness ==
    /\ RecReturned({"prioritize_recommendations"})
    /\ Len(recommendations) = 5
    /\ Len(priority_actions) = 3
    /\ C1_Pos(priority_actions[1]) > 3
    /\ \E i \in 1..5 :
          /\ \A k \in 1..3 : priority_actions[k] # recommendations[i]
          /\ recommendations[i].priority = priority_actions[3].priority

\* The number of recommendations of a type in the list.
C2_Count(t) ==
    Cardinality({i \in 1..Len(recommendations) : recommendations[i].type = t})

\* C2: each bucket of estimate_improvement is min(100, the sum over all the
\* recommendations of the list of the weight of its type), so none exceeds 100.
C2_ImprovementIsCappedSum ==
    RecReturned({"estimate_improvement", "generate_recommendations"}) =>
        /\ estimated_improvement.coverage = Min(100, 30 * C2_Count("coverage_gaps"))
        /\ estimated_improvement.fairness =
              Min(100, 25 * C2_Count("workload_balance") + 20 * C2_Count("fairness"))
        /\ estimated_improvement.satisfaction =
              Min(100, 20 * C2_Count("workload_balance")
                       + 15 * C2_Count("vacation_conflicts")
                       + 25 * C2_Count("fairness"))
        /\ estimated_improvement.efficiency = 0
        /\ \A m \in DOMAIN estimated_improvement : estimated_improvement[m] <= 100

\* Five coverage_gaps recommendations: coverage is 100, not 150.
C2_Witness ==
    /\ RecReturned({"estimate_improvement"})
    /\ C2_Count("coverage_gaps") = 5
    /\ estimated_improvement.coverage = 100

C7_HasWorkloadBalance ==
    \E i \in 1..Len(recommendations) : recommendations[i].type = "workload_balance"

\* C7: generate_recommendations emits a workload_balance recommendation iff
\* the imbalance, population std / mean of the call counts (0 without residents
\* or with mean 0), exceeds 0.2; none for the call counts [4,4,4,4]. With n
\* counts of sum S and sum of squares Q: (std/mean)^2 = (n*Q - S^2) / S^2.
C7_WorkloadBalanceIffImbalanced ==
    RecReturned({"generate_recommendations"}) =>
        LET calls == current_schedule.residents
            n == Len(calls)
            S == SumSeq(calls)
            Q == SumSeq([i \in 1..n |-> calls[i] * calls[i]])
            q == analysis.workload_imbalance
        IN /\ q.den > 0
           /\ IF n = 0 \/ S = 0 THEN q.num = 0
              ELSE q.num * S * S = (n * Q - S * S) * q.den
           /\ C7_HasWorkloadBalance <=>
                 (n > 0 /\ S > 0 /\ 25 * (n * Q - S * S) > S * S)
           /\ calls = <<4, 4, 4, 4>> => (q.num = 0 /\ ~C7_HasWorkloadBalance)

\* An imbalanced schedule, for which the recommendation is emitted.
C7_Witness ==
    /\ RecReturned({"generate_recommendations"})
    /\ current_schedule.residents = <<4, 1, 4>>
    /\ C7_HasWorkloadBalance

\* C8: when the snapshot passed to generate_recommendations holds a coverage
\* gap, the bundle holds a coverage_gaps recommendation of priority critical.
C8_CoverageGapsRecommended ==
    (RecReturned({"generate_recommendations"}) /\ current_schedule.coverage_gaps # <<>>)
        => \E i \in 1..Len(recommendations) :
              /\ recommendations[i].type = "coverage_gaps"
              /\ recommendations[i].priority = "critical"

(***************************************************************************)
(* Properties of ScheduleAnomalyDetector, under SpecAnom.                  *)
(***************************************************************************)

AnomReturned(op) == a_pc = "return" /\ a_op = op

\* C3 as stated: the thresholds are closed, a score of exactly -0.5 is
\* Critical, of exactly -0.3 High, of exactly -0.1 Medium, and 0 is Low.
C3_ClosedThresholds ==
    AnomReturned("calculate_severity") =>
        /\ anomaly_score = -50 => severity = "Critical"
        /\ anomaly_score = -30 => severity = "High"
        /\ anomaly_score = -10 => severity = "Medium"
        /\ anomaly_score = 0 => severity = "Low"

\* C3, amended: the thresholds are strict; each tier is the half-open interval
\* below its threshold, so exactly -0.5 is High, exactly -0.3 Medium, exactly
\* -0.1 Low, and 0 is Low; Critical is only a score strictly below -0.5.
C3_StrictThresholds ==
    AnomReturned("calculate_severity") =>
        /\ severity = "Critical" <=> anomaly_score <= -51
        /\ severity = "High" <=> anomaly_score \in (-50)..(-31)
        /\ severity = "Medium" <=> anomaly_score \in (-30)..(-11)
        /\ severity = "Low" <=> anomaly_score >= -10
        /\ anomaly_score = -50 => severity = "High"
        /\ anomaly_score = -30 => severity = "Medium"
        /\ anomaly_score = -10 => severity = "Low"
        /\ anomaly_score = 0 => severity = "Low"

\* A score of exactly -0.5, which is High.
C3_Witness ==
    /\ AnomReturned("calculate_severity")
    /\ anomaly_score = -50
    /\ severity = "High"

\* The category of a feature vector by the precedence C4 states: the first
\* rule that holds, each rule with the failure of the rules before it.
C4_FirstMatch(f, type) ==
    LET r1 == f.consecutive_calls > 2
        r2 == f.coverage_gaps > 0
        r3 == f.fairness_index < 5
        r4 == f.vacation_conflicts > 0
    IN /\ type = "Excessive Consecutive Calls" <=> r1
       /\ type = "Coverage Gap Detected" <=> (~r1 /\ r2)
       /\ type = "Unfair Distribution" <=> (~r1 /\ ~r2 /\ r3)
       /\ type = "Vacation Conflict" <=> (~r1 /\ ~r2 /\ ~r3 /\ r4)
       /\ type = "General Anomaly" <=> (~r1 /\ ~r2 /\ ~r3 /\ ~r4)

\* C4: classify_anomaly returns the category of the first rule that holds, in
\* the order consecutive_calls > 2, coverage_gaps > 0, fairness_index < 0.5,
\* vacation_conflicts > 0, else General Anomaly; consecutive_calls = 3 with
\* coverage_gaps = 2 is Excessive Consecutive Calls. So are the types of the
\* records of a report.
C4_FirstMatchWins ==
    /\ AnomReturned("classify_anomaly") =>
          /\ C4_FirstMatch(features, anomaly_type)
          /\ (features.consecutive_calls = 3 /\ features.coverage_gaps = 2)
                => anomaly_type = "Excessive Consecutive Calls"
    /\ AnomReturned("detect_anomalies") =>
          \A k \in 1..Len(report.anomalies) :
             C4_FirstMatch(report.anomalies[k].details.metrics,
                           report.anomalies[k].type)

\* The vector of the claim: three consecutive calls and two coverage gaps.
C4_Witness ==
    /\ AnomReturned("classify_anomaly")
    /\ features.consecutive_calls = 3
    /\ features.coverage_gaps = 2
    /\ anomaly_type = "Excessive Consecutive Calls"

\* The entries of the batch with a label, by 1-based place.
C5_Labelled(label) == {i \in 1..Len(predictions) : predictions[i] = label}

\* C5: for a batch of N >= 1 entries and any labelling, the report holds one
\* record per anomalous entry and none for a normal one, in ascending batch
\* index, total_anomalies is their number, and health_score is
\* (normal entries / N) * 100, which is 100 when every entry is normal.
C5_ReportMatchesLabels ==
    (AnomReturned("detect_anomalies") /\ Len(schedule_data) >= 1) =>
        LET N == Len(schedule_data)
            recs == report.anomalies
            h == report.health_score
        IN /\ Len(predictions) = N
           /\ Len(recs) = Cardinality(C5_Labelled(-1))
           /\ \A k \in 1..Len(recs) : (recs[k].index + 1) \in C5_Labelled(-1)
           /\ \A j, k \in 1..Len(recs) : j < k => recs[j].index < recs[k].index
           /\ report.total_anomalies = Len(recs)
           /\ h.den > 0
           /\ h.num * N = Cardinality(C5_Labelled(1)) * 100 * h.den
           /\ C5_Labelled(-1) = {} => h.num = 100 * h.den

\* A batch of three with the second entry anomalous.
C5_Witness ==
    /\ AnomReturned("detect_anomalies")
    /\ predictions = <<1, -1, 1>>
    /\ report.total_anomalies = 1
    /\ report.anomalies[1].index = 1

\* C6: detect_anomalies on an empty batch does not raise and returns
\* health_score 0, total_anomalies 0 and no anomalies.
C6_EmptyBatchIsValid ==
    (a_op = "detect_anomalies" /\ a_pc # "call" /\ schedule_data = <<>>) =>
        /\ a_pc = "return"
        /\ report.health_score.num = 0
        /\ report.total_anomalies = 0
        /\ report.anomalies = <<>>

(***************************************************************************)
(* Properties of CallLoadPredictor, under SpecPred.                        *)
(***************************************************************************)

\* C9: train_model overwrites the artifact atomically: in every interleaving
\* of train_model calls and constructions, the artifact is at every instant a
\* complete model, so a load at a path where an artifact has been persisted
\* never observes an empty or partially written file: it finds a complete
\* artifact and does not fall back to a fresh untrained model.
C9_LoadFindsPersistedArtifact ==
    \A p \in Procs :
        (predictor[p].pc # "new" /\ predictor[p].had_artifact)
            => predictor[p].load_saw = "complete"

\* C10: train_model and then immediately predict_call_load on the same
\* predictor completes without raising, the model loaded or created fresh.
C10_TrainThenPredictDoesNotRaise ==
    \A p \in Procs :
        (/\ predictor[p].pc = "ready"
         /\ predictor[p].prev_op = "train_model"
         /\ predictor[p].last_op = "predict_call_load")
            => predictor[p].raised = "none"

(***************************************************************************)
(* Properties of CallLoadPredictor used by one process, under SpecSerial.  *)
(***************************************************************************)

\* C11: in every DailyForecast predict_call_load produces, the recommended
\* flag of each assignment is true if and only if its call probability is
\* strictly greater than 0.7 (0.7 gives false, 0.70001 gives true), and
\* total_coverage_needed is the number of the assignments of the day whose
\* flag is true.
C11_RecommendedIffAboveThreshold ==
    \A p \in Procs :
        \A d \in 1..Len(predictor[p].forecast) :
            LET day == predictor[p].forecast[d]
                flagged == {i \in 1..Len(day.assignments) : day.assignments[i].recommended}
            IN /\ \A i \in 1..Len(day.assignments) :
                     /\ day.assignments[i].recommended
                            <=> day.assignments[i].call_probability > 70000
                     /\ day.assignments[i].call_probability = 70000
                            => ~day.assignments[i].recommended
                     /\ day.assignments[i].call_probability = 70001
                            => day.assignments[i].recommended
               /\ day.total_coverage_needed = Cardinality(flagged)

\* A forecast of a day with one resident at exactly 0.7, not recommended, and
\* one at 0.70001, recommended: the coverage needed is 1.
C11_Witness ==
    \E p \in Procs :
        /\ predictor[p].pc = "ready"
        /\ predictor[p].last_op = "predict_call_load"
        /\ predictor[p].raised = "none"
        /\ \E d \in 1..Len(predictor[p].forecast) :
              LET day == predictor[p].forecast[d]
              IN /\ \E i \in 1..Len(day.assignments) :
                       /\ day.assignments[i].call_probability = 70000
                       /\ ~day.assignments[i].recommended
                 /\ \E j \in 1..Len(day.assignments) :
                       /\ day.assignments[j].call_probability = 70001
                       /\ day.assignments[j].recommended
                 /\ day.total_coverage_needed = 1

\* C12: retraining overwrites the artifact the predictor was loaded from: for
\* every path, after a predictor constructed with model_path = path completes
\* train_model, the artifact at the path is the newly trained model, and a
\* predictor constructed afterwards with the same path loads that model.
C12_TrainOverwritesLoadedArtifact ==
    \A p \in Procs :
        (/\ predictor[p].pc = "ready"
         /\ predictor[p].last_op = "train_model"
         /\ predictor[p].raised = "none")
            => /\ files[predictor[p].model_path] = PickleOf(predictor[p].model)
               /\ load_model(files[predictor[p].model_path]) = predictor[p].model

(***************************************************************************)
(* The specifications, one per service.                                    *)
(***************************************************************************)

InitRec == RecStart /\ AnomIdle /\ PredIdle

NextRec == PrioritizeRecommendations \/ EstimateImprovement \/ GenerateRecommendations

SpecRec == InitRec /\ [][NextRec]_vars

InitAnom == AnomStart /\ RecIdle /\ PredIdle

NextAnom == CalculateSeverity \/ ClassifyAnomaly \/ DetectAnomalies \/ DetectAnomaliesRaises

SpecAnom == InitAnom /\ [][NextAnom]_vars

InitPred == PredStart /\ RecIdle /\ AnomIdle

NextPred ==
    \E p \in Procs :
        \/ \E path \in Paths : Construct(p, path)
        \/ TrainFit(p)
        \/ TrainOpen(p)
        \/ TrainWrite(p)
        \/ TrainReturn(p)
        \/ \E period_days \in 0..MaxDays : PredictBegin(p, period_days)
        \/ \E active \in 0..MaxActive : PredictDay(p, active)
        \/ PredictReturn(p)

SpecPred == InitPred /\ [][NextPred]_vars

\* One process holds the predictor: its calls are serial, and no other writer
\* touches the artifacts.
InitSerial == SerialStart /\ RecIdle /\ AnomIdle

NextSerial ==
    \/ \E path \in Paths : Construct(1, path)
    \/ TrainFit(1)
    \/ TrainOpen(1)
    \/ TrainWrite(1)
    \/ TrainReturn(1)
    \/ \E period_days \in 0..MaxDays : PredictBegin(1, period_days)
    \/ \E active \in 0..MaxActive : PredictDay(1, active)
    \/ PredictReturn(1)

SpecSerial == InitSerial /\ [][NextSerial]_vars

=============================================================================
